---- MODULE Spec2Model ----
(***************************************************************************)
(* Model of the forwarder configuration layer:                             *)
(*   - fileurl.ParseFilePathOrURL                                          *)
(*   - forwarder.ProxyConfig (Validate, Clone), ParseProxyURI,             *)
(*     validateProxyURI, ParseDNSURI, validateDNSURI, isPort               *)
(*   - compose.Compose (Run, wait) and Service.Wait                        *)
(*                                                                         *)
(* Go strings are modelled as sequences of one-character strings, so that  *)
(* parsing and rendering are computed character by character.  A Go        *)
(* pointer that may be nil is a sequence of length 0 (nil) or 1.           *)
(***************************************************************************)
EXTENDS Integers, Sequences, FiniteSets, TLC

\* arg: the input of the call under study; pc: where the caller stands;
\* ret: what the call returned.
VARIABLES arg, pc, ret

\* heap: the objects behind pointers and slices, by address; snap: the deep
\* value of the source configuration when it was cloned; touched: the
\* configurations (source or clone) written to since.
VARIABLES heap, snap, touched

\* executed: the stages Compose.Run has executed, each with its outcome;
\* gpc, gres: where each service's goroutine stands and what its Wait
\* returned; group: the errgroup's recorded error; failed, recorded: the
\* services in the order their checks failed, and in the order their errors
\* reached the group.
VARIABLES executed, gpc, gres, group, failed, recorded

cloneVars == << heap, snap, touched >>
composeVars == << executed, gpc, gres, group, failed, recorded >>
vars == << arg, pc, ret, cloneVars, composeVars >>

\* The values of the variables a specification does not use.
IdleClone == heap = << >> /\ snap = << >> /\ touched = << >>
IdleCompose ==
    /\ executed = << >> /\ gpc = << >> /\ gres = << >>
    /\ group = << >> /\ failed = << >> /\ recorded = << >>

(***************************************************************************)
(* Bounds of the model.                                                    *)
(***************************************************************************)
MaxDNS == 2
NumServices == 2
MaxMutations == 2

(***************************************************************************)
(* Optional values (nil-able pointers).                                    *)
(***************************************************************************)
Nil == << >>
Some(x) == << x >>
IsNil(p) == Len(p) = 0
Deref(p) == p[1]

(***************************************************************************)
(* Package strings.                                                        *)
(***************************************************************************)
Lower == {"a","b","c","d","e","f","g","h","i","j","k","l","m",
          "n","o","p","q","r","s","t","u","v","w","x","y","z"}
Upper == {"A","B","C","D","E","F","G","H","I","J","K","L","M",
          "N","O","P","Q","R","S","T","U","V","W","X","Y","Z"}
Digit == {"0","1","2","3","4","5","6","7","8","9"}
LowerSeq == <<"a","b","c","d","e","f","g","h","i","j","k","l","m",
              "n","o","p","q","r","s","t","u","v","w","x","y","z">>
UpperSeq == <<"A","B","C","D","E","F","G","H","I","J","K","L","M",
              "N","O","P","Q","R","S","T","U","V","W","X","Y","Z">>
DigitSeq == <<"0","1","2","3","4","5","6","7","8","9">>

\* strings.Index(s, c) for a one-byte c, 1-based; 0 when c does not occur.
Index(s, c) ==
    IF \E i \in 1..Len(s) : s[i] = c
    THEN CHOOSE i \in 1..Len(s) : s[i] = c /\ \A j \in 1..(i-1) : s[j] # c
    ELSE 0

\* strings.LastIndex(s, c), 1-based; 0 when c does not occur.
LastIndex(s, c) ==
    IF \E i \in 1..Len(s) : s[i] = c
    THEN CHOOSE i \in 1..Len(s) : s[i] = c /\ \A j \in (i+1)..Len(s) : s[j] # c
    ELSE 0

Contains(s, c) == \E i \in 1..Len(s) : s[i] = c

Count(s, c) == Cardinality({i \in 1..Len(s) : s[i] = c})

HasPrefix(s, p) == Len(s) >= Len(p) /\ SubSeq(s, 1, Len(p)) = p

HasSuffix(s, p) == Len(s) >= Len(p) /\ SubSeq(s, Len(s) - Len(p) + 1, Len(s)) = p

\* s[i:] with a 1-based first index.
From(s, i) == SubSeq(s, i, Len(s))

\* strings.Cut(s, c): before, after, found.
Cut(s, c) ==
    LET i == Index(s, c)
    IN IF i = 0 THEN [before |-> s, after |-> << >>, found |-> FALSE]
       ELSE [before |-> SubSeq(s, 1, i - 1), after |-> From(s, i + 1), found |-> TRUE]

\* strings.ReplaceAll(s, old, new) for one-byte old and new.
ReplaceAll(s, old, new) == [i \in 1..Len(s) |-> IF s[i] = old THEN new ELSE s[i]]

ToLowerChar(c) ==
    IF c \in Upper THEN LowerSeq[CHOOSE i \in 1..26 : UpperSeq[i] = c] ELSE c

ToLower(s) == [i \in 1..Len(s) |-> ToLowerChar(s[i])]

(***************************************************************************)
(* Package strconv.                                                        *)
(***************************************************************************)
DigitVal(c) == (CHOOSE i \in 1..10 : DigitSeq[i] = c) - 1

\* The value of a string of decimal digits of at most 9 digits.
RECURSIVE DecVal(_)
DecVal(s) ==
    IF Len(s) = 0 THEN 0
    ELSE 10 * DecVal(SubSeq(s, 1, Len(s) - 1)) + DigitVal(s[Len(s)])

\* strconv.Atoi: an optional sign and then one or more digits.  Longer
\* digit strings than the model draws (more than 9 digits) are reported as
\* values above every port, which is how they compare in isPort.
Atoi(s) ==
    LET signed == Len(s) > 0 /\ s[1] \in {"+", "-"}
        digits == IF signed THEN From(s, 2) ELSE s
    IN IF Len(digits) = 0 \/ \E i \in 1..Len(digits) : digits[i] \notin Digit
       THEN [ok |-> FALSE, n |-> 0]
       ELSE IF Len(digits) > 9 THEN [ok |-> TRUE, n |-> 999999999]
       ELSE [ok |-> TRUE,
             n |-> IF signed /\ s[1] = "-" THEN 0 - DecVal(digits) ELSE DecVal(digits)]

(***************************************************************************)
(* Package net/url: the URL structure and url.Parse, for inputs without    *)
(* percent-escapes and without control bytes (the model draws none).       *)
(***************************************************************************)
\* *url.Userinfo as built by url.User (passwordSet FALSE) or url.UserPassword.
Userinfo(username, password, passwordSet) ==
    [username |-> username, password |-> password, passwordSet |-> passwordSet]

\* The zero url.URL.
ZeroURL ==
    [Scheme |-> << >>, Opaque |-> << >>, User |-> Nil, Host |-> << >>,
     Path |-> << >>, RawQuery |-> << >>, Fragment |-> << >>,
     OmitHost |-> FALSE, ForceQuery |-> FALSE]

\* A (*url.URL, error) pair: u is Nil exactly when err is not "".
ParseOk(u) == [u |-> Some(u), err |-> ""]
ParseErr(e) == [u |-> Nil, err |-> e]

\* url.getScheme: scheme, rest, error.
RECURSIVE getSchemeAt(_, _)
getSchemeAt(rawURL, i) ==
    IF i > Len(rawURL) THEN [scheme |-> << >>, rest |-> rawURL, err |-> ""]
    ELSE LET c == rawURL[i]
         IN IF c \in Lower \cup Upper THEN getSchemeAt(rawURL, i + 1)
            ELSE IF c \in Digit \cup {"+", "-", "."}
                 THEN IF i = 1 THEN [scheme |-> << >>, rest |-> rawURL, err |-> ""]
                      ELSE getSchemeAt(rawURL, i + 1)
            ELSE IF c = ":"
                 THEN IF i = 1
                      THEN [scheme |-> << >>, rest |-> << >>, err |-> "missing protocol scheme"]
                      ELSE [scheme |-> SubSeq(rawURL, 1, i - 1), rest |-> From(rawURL, i + 1),
                            err |-> ""]
            ELSE [scheme |-> << >>, rest |-> rawURL, err |-> ""]

getScheme(rawURL) == getSchemeAt(rawURL, 1)

\* url.validOptionalPort: "" or ":" followed by digits only.
validOptionalPort(port) ==
    \/ Len(port) = 0
    \/ /\ port[1] = ":"
       /\ \A i \in 2..Len(port) : port[i] \in Digit

\* Bytes url.unescape(host, encodeHost) accepts unescaped in a host.
HostByte == Lower \cup Upper \cup Digit \cup
            {"-", "_", ".", "~", "!", "$", "&", "'", "(", ")", "*", "+", ",",
             ";", "=", ":", "[", "]", "<", ">"}

\* url.parseHost: host, error.
parseHost(host) ==
    LET portErr ==
            IF HasPrefix(host, <<"[">>)
            THEN LET i == LastIndex(host, "]")
                 IN IF i = 0 THEN "missing ']' in host"
                    ELSE IF ~validOptionalPort(From(host, i + 1))
                         THEN "invalid port after host" ELSE ""
            ELSE LET i == LastIndex(host, ":")
                 IN IF i # 0 /\ ~validOptionalPort(From(host, i))
                    THEN "invalid port after host" ELSE ""
    IN IF portErr # "" THEN [host |-> << >>, err |-> portErr]
       ELSE IF \E i \in 1..Len(host) : host[i] \notin HostByte
            THEN [host |-> << >>, err |-> "invalid character in host name"]
       ELSE [host |-> host, err |-> ""]

\* Bytes url.validUserinfo accepts.
UserinfoByte == Lower \cup Upper \cup Digit \cup
                {"-", ".", "_", ":", "~", "!", "$", "&", "'", "(", ")", "*", "+",
                 ",", ";", "=", "%", "@"}

\* url.parseAuthority: user, host, error.
parseAuthority(authority) ==
    LET i == LastIndex(authority, "@")
        h == IF i = 0 THEN parseHost(authority) ELSE parseHost(From(authority, i + 1))
        userinfo == SubSeq(authority, 1, i - 1)
    IN IF h.err # "" THEN [user |-> Nil, host |-> << >>, err |-> h.err]
       ELSE IF i = 0 THEN [user |-> Nil, host |-> h.host, err |-> ""]
       ELSE IF \E k \in 1..Len(userinfo) : userinfo[k] \notin UserinfoByte
            THEN [user |-> Nil, host |-> << >>, err |-> "net/url: invalid userinfo"]
       ELSE IF ~Contains(userinfo, ":")
            THEN [user |-> Some(Userinfo(userinfo, << >>, FALSE)), host |-> h.host, err |-> ""]
       ELSE LET c == Cut(userinfo, ":")
            IN [user |-> Some(Userinfo(c.before, c.after, TRUE)), host |-> h.host, err |-> ""]

\* url.parse(rawURL, viaRequest = false), called on the part before '#'.
parse(rawURL) ==
    IF rawURL = <<"*">> THEN ParseOk([ZeroURL EXCEPT !.Path = <<"*">>])
    ELSE
    LET gs == getScheme(rawURL)
        scheme == ToLower(gs.scheme)
        forceQuery == HasSuffix(gs.rest, <<"?">>) /\ Count(gs.rest, "?") = 1
        q == Cut(gs.rest, "?")
        rest == IF forceQuery THEN SubSeq(gs.rest, 1, Len(gs.rest) - 1) ELSE q.before
        rawQuery == IF forceQuery THEN << >> ELSE q.after
        base == [ZeroURL EXCEPT !.Scheme = scheme, !.RawQuery = rawQuery,
                                !.ForceQuery = forceQuery]
        hasAuthority ==
            /\ scheme # << >> \/ ~HasPrefix(rest, <<"/", "/", "/">>)
            /\ HasPrefix(rest, <<"/", "/">>)
        afterSlashes == From(rest, 3)
        slash == Index(afterSlashes, "/")
        authority == IF slash = 0 THEN afterSlashes ELSE SubSeq(afterSlashes, 1, slash - 1)
        pathRest == IF slash = 0 THEN << >> ELSE From(afterSlashes, slash)
        a == parseAuthority(authority)
    IN IF gs.err # "" THEN ParseErr(gs.err)
       ELSE IF ~HasPrefix(rest, <<"/">>) /\ scheme # << >>
            THEN ParseOk([base EXCEPT !.Opaque = rest])
       ELSE IF ~HasPrefix(rest, <<"/">>) /\ Contains(Cut(rest, "/").before, ":")
            THEN ParseErr("first path segment in URL cannot contain colon")
       ELSE IF hasAuthority
            THEN IF a.err # "" THEN ParseErr(a.err)
                 ELSE ParseOk([base EXCEPT !.User = a.user, !.Host = a.host,
                                           !.Path = pathRest])
       ELSE ParseOk([base EXCEPT !.Path = rest,
                                 !.OmitHost = (scheme # << >> /\ HasPrefix(rest, <<"/">>))])

\* url.Parse: cut off the fragment, parse the rest, set the fragment.
urlParse(rawURL) ==
    LET c == Cut(rawURL, "#")
        r == parse(c.before)
    IN IF r.err # "" THEN r
       ELSE ParseOk([Deref(r.u) EXCEPT !.Fragment = c.after])

\* url.splitHostPort: the host without brackets, and the port.
splitHostPort(hostPort) ==
    LET colon == LastIndex(hostPort, ":")
        split == colon # 0 /\ validOptionalPort(From(hostPort, colon))
        host == IF split THEN SubSeq(hostPort, 1, colon - 1) ELSE hostPort
        port == IF split THEN From(hostPort, colon + 1) ELSE << >>
    IN [host |-> IF HasPrefix(host, <<"[">>) /\ HasSuffix(host, <<"]">>)
                 THEN SubSeq(host, 2, Len(host) - 1) ELSE host,
        port |-> port]

\* (*url.URL).Hostname and (*url.URL).Port.
Hostname(u) == splitHostPort(u.Host).host
Port(u) == splitHostPort(u.Host).port

(***************************************************************************)
(* Package net: net.ParseIP, as a predicate (the result is nil or not).    *)
(***************************************************************************)
HexDigit == Digit \cup {"a","b","c","d","e","f","A","B","C","D","E","F"}

\* strings.Split(s, c) for a one-byte separator.
RECURSIVE Split(_, _)
Split(s, c) ==
    LET i == Index(s, c)
    IN IF i = 0 THEN << s >>
       ELSE << SubSeq(s, 1, i - 1) >> \o Split(From(s, i + 1), c)

\* One decimal field of a dotted IPv4 address: 1 to 3 digits, at most 255,
\* no leading zero.
IsIPv4Field(f) ==
    /\ Len(f) \in 1..3
    /\ \A i \in 1..Len(f) : f[i] \in Digit
    /\ DecVal(f) <= 255
    /\ Len(f) > 1 => f[1] # "0"

IsIPv4(s) ==
    LET fields == Split(s, ".")
    IN Len(fields) = 4 /\ \A i \in 1..4 : IsIPv4Field(fields[i])

\* One group of an IPv6 address: 1 to 4 hexadecimal digits.
IsHexGroup(g) == Len(g) \in 1..4 /\ \A i \in 1..Len(g) : g[i] \in HexDigit

\* Groups before the tail are hexadecimal; the tail is a hexadecimal group or
\* an embedded IPv4 address, which stands for two groups.
GroupsOk(groups) ==
    /\ \A i \in 1..(Len(groups) - 1) : IsHexGroup(groups[i])
    /\ Len(groups) > 0 => IsHexGroup(groups[Len(groups)]) \/ IsIPv4(groups[Len(groups)])

GroupCount(groups) ==
    IF Len(groups) > 0 /\ ~IsHexGroup(groups[Len(groups)]) THEN Len(groups) + 1
    ELSE Len(groups)

IsIPv6(s) ==
    LET ellipses == {i \in 1..(Len(s) - 1) : s[i] = ":" /\ s[i + 1] = ":"}
    IN IF Cardinality(ellipses) > 1 THEN FALSE
       ELSE IF Cardinality(ellipses) = 1
       THEN LET e == CHOOSE i \in ellipses : TRUE
                left == SubSeq(s, 1, e - 1)
                right == From(s, e + 2)
                lg == IF Len(left) = 0 THEN << >> ELSE Split(left, ":")
                rg == IF Len(right) = 0 THEN << >> ELSE Split(right, ":")
            IN /\ \A i \in 1..Len(lg) : IsHexGroup(lg[i])
               /\ GroupsOk(rg)
               /\ Len(lg) + GroupCount(rg) <= 7
       ELSE LET groups == Split(s, ":")
            IN GroupsOk(groups) /\ GroupCount(groups) = 8

\* net.ParseIP(s) != nil.  The first '.' or ':' decides the family.
ParseIP(s) ==
    LET dot == Index(s, ".")
        colon == Index(s, ":")
    IN IF dot # 0 /\ (colon = 0 \/ dot < colon) THEN IsIPv4(s)
       ELSE IF colon # 0 THEN IsIPv6(s)
       ELSE FALSE

(***************************************************************************)
(* Package forwarder: proxy and DNS URIs.  An error is its message; "" is  *)
(* the nil error.                                                          *)
(***************************************************************************)
minHostLength == 4

\* isPort with the lower bound off by one: port 0 passes.
isPort_AcceptsZero(port) ==
    LET a == Atoi(port)
    IN a.ok /\ a.n >= 0 /\ a.n <= 65535

\* isPort: the port string is a number in 1..65535.
isPort(port) ==
    LET a == Atoi(port)
    IN a.ok /\ a.n >= 1 /\ a.n <= 65535

\* validatedUserInfo(ui *url.Userinfo).
validatedUserInfo(ui) ==
    IF IsNil(ui) THEN ""
    ELSE IF Deref(ui).username = << >> THEN "username cannot be empty"
    ELSE IF Deref(ui).password = << >> THEN "password cannot be empty"
    ELSE ""

\* validateProxyURI with the hostname comparison off by one: a hostname of
\* exactly minHostLength bytes is rejected.
validateProxyURI_HostLenLE(u) ==
    IF IsNil(u) THEN ""
    ELSE LET v == Deref(u)
         IN IF v.Scheme \notin {<<"h","t","t","p">>, <<"h","t","t","p","s">>,
                                <<"s","o","c","k","s","5">>, <<"s","o","c","k","s">>,
                                <<"q","u","i","c">>}
            THEN "invalid scheme"
            ELSE IF Len(Hostname(v)) <= minHostLength THEN "invalid hostname"
            ELSE IF Port(v) = << >> THEN "port is required"
            ELSE IF ~isPort(Port(v)) THEN "invalid port"
            ELSE validatedUserInfo(v.User)

\* validateProxyURI(u *url.URL).
validateProxyURI(u) ==
    IF IsNil(u) THEN ""
    ELSE LET v == Deref(u)
         IN IF v.Scheme \notin {<<"h","t","t","p">>, <<"h","t","t","p","s">>,
                                <<"s","o","c","k","s","5">>, <<"s","o","c","k","s">>,
                                <<"q","u","i","c">>}
            THEN "invalid scheme"
            ELSE IF Len(Hostname(v)) < minHostLength THEN "invalid hostname"
            ELSE IF Port(v) = << >> THEN "port is required"
            ELSE IF ~isPort(Port(v)) THEN "invalid port"
            ELSE validatedUserInfo(v.User)

\* ParseProxyURI(val string).
ParseProxyURI(val) ==
    LET r == urlParse(val)
    IN IF r.err # "" THEN r
       ELSE IF validateProxyURI(r.u) # "" THEN ParseErr(validateProxyURI(r.u))
       ELSE r

\* validateDNSURI(u *url.URL).  It reads u.Scheme first, so a nil u is a
\* nil-pointer dereference: the goroutine panics.
validateDNSURI(u) ==
    IF IsNil(u) THEN "panic"
    ELSE LET v == Deref(u)
         IN IF v.Scheme # <<"u","d","p">> /\ v.Scheme # <<"t","c","p">>
            THEN "invalid protocol"
            ELSE IF ~ParseIP(Hostname(v)) THEN "invalid hostname"
            ELSE IF ~isPort(Port(v)) THEN "invalid port"
            ELSE IF ~IsNil(v.User) THEN "username and password are not allowed in DNS URI"
            ELSE IF v.Path # << >> \/ v.RawQuery # << >> \/ v.Fragment # << >>
                 THEN "path, query, and fragment are not allowed in DNS URI"
            ELSE ""

\* ParseDNSURI, the defaults put into the parsed u: an empty host becomes
\* url.URL{Host: val}, an empty scheme "udp", an empty port ":53".
dnsDefaults(u, val) ==
    LET u1 == IF u.Host = << >> THEN [ZeroURL EXCEPT !.Host = val] ELSE u
        u2 == IF u1.Scheme = << >> THEN [u1 EXCEPT !.Scheme = <<"u","d","p">>] ELSE u1
    IN IF Port(u2) = << >>
       THEN [u2 EXCEPT !.Host = u2.Host \o <<":","5","3">>] ELSE u2

\* ParseDNSURI, its end: validateDNSURI(u), and u or the error.
dnsValidated(u) ==
    IF validateDNSURI(Some(u)) # "" THEN ParseErr(validateDNSURI(Some(u)))
    ELSE ParseOk(u)

\* ParseDNSURI(val string).
ParseDNSURI(val) ==
    LET r == urlParse(val)
    IN IF r.err # "" THEN r
       ELSE dnsValidated(dnsDefaults(Deref(r.u), val))

(***************************************************************************)
(* Proxy URIs: the inputs.  An input is given by its components, so that   *)
(* what was written is known independently of what the parser makes of it; *)
(* RenderProxy writes the components as the string handed to               *)
(* ParseProxyURI, BuildProxy as the structure handed to validateProxyURI.  *)
(***************************************************************************)
ProxySchemes == {<<"h","t","t","p">>, <<"h","t","t","p","s">>, <<"s","o","c","k","s">>,
                 <<"s","o","c","k","s","5">>, <<"q","u","i","c">>}

SchemeInputs == ProxySchemes \cup {<<"f","t","p">>, <<"H","T","T","P">>, << >>}

UserInputs ==
    {Nil,
     Some(Userinfo(<<"u","s","r">>, <<"p","w">>, TRUE)),
     Some(Userinfo(<<"u","s","r">>, << >>, TRUE)),
     Some(Userinfo(<< >>, <<"p","w">>, TRUE)),
     Some(Userinfo(<<"u","s","r">>, << >>, FALSE))}

\* A host as written: its name, and whether it is written in brackets.
HostInputs ==
    {[name |-> <<"h","o","s","t">>, bracket |-> FALSE],
     [name |-> <<"a",".","b">>, bracket |-> FALSE],
     [name |-> <<"1",".","2",".","3",".","4">>, bracket |-> FALSE],
     [name |-> <<":",":","1">>, bracket |-> TRUE],
     [name |-> <<"f","e","8","0",":",":","1">>, bracket |-> TRUE],
     [name |-> << >>, bracket |-> FALSE]}

\* A port as written: whether ":port" is written at all, its text, whether
\* the text is a decimal number, and the number.
PortInputs ==
    {[present |-> FALSE, s |-> << >>, numeric |-> FALSE, n |-> 0],
     [present |-> TRUE, s |-> << >>, numeric |-> FALSE, n |-> 0],
     [present |-> TRUE, s |-> <<"0">>, numeric |-> TRUE, n |-> 0],
     [present |-> TRUE, s |-> <<"1">>, numeric |-> TRUE, n |-> 1],
     [present |-> TRUE, s |-> <<"0","8","0">>, numeric |-> TRUE, n |-> 80],
     [present |-> TRUE, s |-> <<"6","5","5","3","5">>, numeric |-> TRUE, n |-> 65535],
     [present |-> TRUE, s |-> <<"6","5","5","3","6">>, numeric |-> TRUE, n |-> 65536],
     [present |-> TRUE, s |-> <<"8","a">>, numeric |-> FALSE, n |-> 0]}

PathInputs == {<< >>, <<"/","p">>}

ProxyInputs ==
    [absent : {FALSE}, scheme : SchemeInputs, user : UserInputs, host : HostInputs,
     port : PortInputs, path : PathInputs]

\* The absent (nil) URI.
AbsentInput ==
    [absent |-> TRUE, scheme |-> << >>, user |-> Nil,
     host |-> [name |-> << >>, bracket |-> FALSE],
     port |-> [present |-> FALSE, s |-> << >>, numeric |-> FALSE, n |-> 0],
     path |-> << >>]

HostText(h) == IF h.bracket THEN <<"[">> \o h.name \o <<"]">> ELSE h.name

PortText(p) == IF p.present THEN <<":">> \o p.s ELSE << >>

UserText(ui) ==
    IF IsNil(ui) THEN << >>
    ELSE Deref(ui).username
         \o (IF Deref(ui).passwordSet THEN <<":">> \o Deref(ui).password ELSE << >>)
         \o <<"@">>

\* scheme://[user[:password]@]host[:port][path]
RenderProxy(c) ==
    c.scheme \o <<":","/","/">> \o UserText(c.user) \o HostText(c.host)
    \o PortText(c.port) \o c.path

\* &url.URL{Scheme: ..., User: ..., Host: ..., Path: ...}, or nil.
BuildProxy(c) ==
    IF c.absent THEN Nil
    ELSE Some([ZeroURL EXCEPT !.Scheme = c.scheme, !.User = c.user,
                              !.Host = HostText(c.host) \o PortText(c.port),
                              !.Path = c.path])

(***************************************************************************)
(* The specification of the proxy-URI calls.                               *)
(***************************************************************************)
NoResult == [u |-> Nil, err |-> ""]

InitProxy ==
    /\ arg \in ProxyInputs \cup {AbsentInput}
    /\ pc = "start"
    /\ ret = NoResult
    /\ IdleClone /\ IdleCompose

CallParseProxyURI ==
    /\ pc = "start"
    /\ ~arg.absent
    /\ ret' = ParseProxyURI(RenderProxy(arg))
    /\ pc' = "parsed"
    /\ UNCHANGED << arg, cloneVars, composeVars >>

CallValidateProxyURI ==
    /\ pc = "start"
    /\ ret' = [u |-> BuildProxy(arg), err |-> validateProxyURI(BuildProxy(arg))]
    /\ pc' = "validated"
    /\ UNCHANGED << arg, cloneVars, composeVars >>

NextProxy == CallParseProxyURI \/ CallValidateProxyURI

SpecProxy == InitProxy /\ [][NextProxy]_vars

(***************************************************************************)
(* Claims about proxy URIs.                                                *)
(***************************************************************************)
\* What the claims call a well-formed port: written, numeric, in 1..65535.
PortInRange(p) == p.present /\ p.numeric /\ p.n >= 1 /\ p.n <= 65535

\* What the claims call a complete credential: none, or both parts non-empty.
CredentialOk(ui) ==
    IsNil(ui) \/ (Deref(ui).username # << >> /\ Deref(ui).password # << >>)

\* The input has an accepted scheme, a hostname of 4 or more and a port in range.
C2_Premise ==
    /\ pc = "parsed"
    /\ arg.scheme \in ProxySchemes
    /\ Len(arg.host.name) >= 4
    /\ PortInRange(arg.port)

\* Parsing succeeded and scheme, host and port are those that were written.
C2_RoundTrip ==
    /\ ret.err = ""
    /\ ~IsNil(ret.u)
    /\ Deref(ret.u).Scheme = arg.scheme
    /\ Deref(ret.u).Host = HostText(arg.host) \o PortText(arg.port)
    /\ Hostname(Deref(ret.u)) = arg.host.name
    /\ Port(Deref(ret.u)) = arg.port.s

\* C2 as stated: every proxy-URI string with scheme in {http, https, socks,
\* socks5, quic}, hostname length >= 4 and port in [1,65535] is parsed
\* successfully by ParseProxyURI, and scheme, host and port round-trip exactly.
C2_Original == C2_Premise => C2_RoundTrip

\* C2 as amended: the same, for the strings whose credential is absent or has
\* a non-empty username and a non-empty password.
C2_ParseRoundTrip == (C2_Premise /\ CredentialOk(arg.user)) => C2_RoundTrip

\* C2's case is reached: a URI with a complete credential and a bracketed
\* IPv6 host was parsed and returned.
C2_Witness ==
    /\ C2_Premise
    /\ ~IsNil(arg.user) /\ CredentialOk(arg.user)
    /\ arg.host.bracket
    /\ ret.err = ""

\* C3: validateProxyURI returns no error exactly when the URI is absent, or
\* the scheme is one of http, https, socks, socks5, quic, the hostname has
\* length >= 4, the port is present, numeric and in [1,65535], and the
\* credential is absent or has a non-empty username and a non-empty password.
C3_ValidateIff ==
    pc = "validated" =>
        (ret.err = "" <=>
            \/ arg.absent
            \/ /\ arg.scheme \in ProxySchemes
               /\ Len(arg.host.name) >= minHostLength
               /\ PortInRange(arg.port)
               /\ CredentialOk(arg.user))

\* C3's cases are reached: a present URI with a credential was accepted ...
C3_Witness ==
    /\ pc = "validated"
    /\ ~arg.absent
    /\ ~IsNil(arg.user)
    /\ ret.err = ""

(***************************************************************************)
(* DNS URIs: the inputs, by components, and the specification of the       *)
(* ParseDNSURI call.                                                       *)
(***************************************************************************)
DNSSchemes == {<<"u","d","p">>, <<"t","c","p">>}

DNSSchemeInputs == DNSSchemes \cup {<< >>, <<"h","t","t","p">>}

\* A host as written: its name, whether it is written in brackets, and
\* whether the name is an IP address literal.
DNSHostInputs ==
    {[name |-> <<"1",".","1",".","1",".","1">>, bracket |-> FALSE, ip |-> TRUE],
     [name |-> <<"2","5","6",".","1",".","1",".","1">>, bracket |-> FALSE, ip |-> FALSE],
     [name |-> <<"d","n","s",".","i","o">>, bracket |-> FALSE, ip |-> FALSE],
     [name |-> <<":",":","1">>, bracket |-> TRUE, ip |-> TRUE],
     [name |-> <<":",":","1">>, bracket |-> FALSE, ip |-> TRUE],
     [name |-> <<"f","e","8","0",":",":","1">>, bracket |-> TRUE, ip |-> TRUE],
     [name |-> <<"f","e","8","0",":",":","1",":","5","4">>, bracket |-> FALSE, ip |-> TRUE]}

DNSUserInputs == {Nil, Some(Userinfo(<<"u","s","r">>, <<"p","w">>, TRUE))}

QueryInputs == {<< >>, <<"q">>}

FragmentInputs == {<< >>, <<"f">>}

\* A bare IP: no scheme, no "//", nothing but the address.
BareIP(c) ==
    /\ c.scheme = << >> /\ ~c.slashes /\ IsNil(c.user) /\ ~c.port.present
    /\ c.path = << >> /\ c.query = << >> /\ c.fragment = << >>
    /\ c.host.ip /\ ~c.host.bracket

\* slashes: whether "//" introduces the host.  An IPv6 address is written
\* without brackets only as a bare IP: beside a port it needs them.
DNSInputs ==
    {c \in [scheme : DNSSchemeInputs, slashes : BOOLEAN, user : DNSUserInputs,
            host : DNSHostInputs, port : PortInputs, path : PathInputs,
            query : QueryInputs, fragment : FragmentInputs] :
        (Contains(c.host.name, ":") /\ ~c.host.bracket) => BareIP(c)}

\* [scheme:][//][user:password@]host[:port][path][?query][#fragment]
RenderDNS(c) ==
    (IF c.scheme = << >> THEN << >> ELSE c.scheme \o <<":">>)
    \o (IF c.slashes THEN <<"/","/">> ELSE << >>)
    \o UserText(c.user) \o HostText(c.host) \o PortText(c.port) \o c.path
    \o (IF c.query = << >> THEN << >> ELSE <<"?">> \o c.query)
    \o (IF c.fragment = << >> THEN << >> ELSE <<"#">> \o c.fragment)

InitDNS ==
    /\ arg \in DNSInputs
    /\ pc = "start"
    /\ ret = NoResult
    /\ IdleClone /\ IdleCompose

CallParseDNSURI ==
    /\ pc = "start"
    /\ ret' = ParseDNSURI(RenderDNS(arg))
    /\ pc' = "dnsparsed"
    /\ UNCHANGED << arg, cloneVars, composeVars >>

NextDNS == CallParseDNSURI

SpecDNS == InitDNS /\ [][NextDNS]_vars

(***************************************************************************)
(* Claims about DNS URIs.                                                  *)
(***************************************************************************)
IPLiterals == {h.name : h \in {x \in DNSHostInputs : x.ip}}

\* A port text that is a decimal number in 1..65535.
PortTextInRange(s) ==
    /\ Len(s) \in 1..5
    /\ \A i \in 1..Len(s) : s[i] \in Digit
    /\ DecVal(s) \in 1..65535

\* The DNS invariant of a returned URI.
DNSInvariant(u) ==
    /\ u.Scheme \in DNSSchemes
    /\ Hostname(u) \in IPLiterals
    /\ PortTextInRange(Port(u))
    /\ IsNil(u.User)
    /\ u.Path = << >> /\ u.RawQuery = << >> /\ u.Fragment = << >>

\* The returned scheme, host and port are the written ones, udp and 53 by default.
DNSDefaults(c, u) ==
    /\ u.Scheme = (IF c.scheme = << >> THEN <<"u","d","p">> ELSE c.scheme)
    /\ Port(u) = (IF c.port.present THEN c.port.s ELSE <<"5","3">>)
    /\ Hostname(u) = c.host.name

\* C4: ParseDNSURI returns an error or a URI that satisfies the DNS
\* invariant, whose scheme is the input's or udp, whose port is the input's or
\* 53, and whose host is the input's; a bare IP is taken whole as the host
\* ("1.1.1.1" gives udp, 1.1.1.1, 53) and a hostname is rejected.
C4_ParseDNS ==
    pc = "dnsparsed" =>
        /\ ret.err = "" => DNSInvariant(Deref(ret.u)) /\ DNSDefaults(arg, Deref(ret.u))
        /\ (BareIP(arg) /\ ret.err = "") => Deref(ret.u).Host = arg.host.name \o <<":","5","3">>
        /\ (BareIP(arg) /\ arg.host.name = <<"1",".","1",".","1",".","1">>) => ret.err = ""
        /\ ~arg.host.ip => ret.err # ""

(***************************************************************************)
(* Package fileurl.                                                        *)
(***************************************************************************)
FilePrefix == <<"f","i","l","e",":">>

\* The number of '/' bytes of s from index i on, up to the first other byte.
RECURSIVE SlashRun(_, _)
SlashRun(s, i) ==
    IF i <= Len(s) /\ s[i] = "/" THEN 1 + SlashRun(s, i + 1) ELSE 0

\* uncEmptyAuthorityRegex = ^file:/{4,}([^/]) : the match, if any, as the
\* length of m[0] and the byte m[1].
uncEmptyAuthorityRegex(val) ==
    LET n == SlashRun(val, Len(FilePrefix) + 1)
        end == Len(FilePrefix) + n + 1
    IN IF HasPrefix(val, FilePrefix) /\ n >= 4 /\ end <= Len(val)
       THEN [matched |-> TRUE, len |-> end, m1 |-> val[end]]
       ELSE [matched |-> FALSE, len |-> 0, m1 |-> ""]

\* windowsVolumeRegex = ^/?([a-zA-Z])[:\|]/ : the match, if any, as the
\* length of m[0] and the byte m[1].
windowsVolumeRegex(path) ==
    LET off == IF HasPrefix(path, <<"/">>) THEN 1 ELSE 0
    IN IF /\ Len(path) >= off + 3
          /\ path[off + 1] \in Lower \cup Upper
          /\ path[off + 2] \in {":", "|"}
          /\ path[off + 3] = "/"
       THEN [matched |-> TRUE, len |-> off + 3, m1 |-> path[off + 1]]
       ELSE [matched |-> FALSE, len |-> 0, m1 |-> ""]

\* ParseFilePathOrURL, before url.Parse: backslashes become slashes, a
\* leading "//" gets the "file:" prefix, and four or more slashes after
\* "file:" are cut to two.
fileURLText(val) ==
    LET v1 == ReplaceAll(val, "\\", "/")
        v2 == IF HasPrefix(v1, <<"/","/">>) THEN FilePrefix \o v1 ELSE v1
        unc == uncEmptyAuthorityRegex(v2)
    IN IF unc.matched
       THEN <<"f","i","l","e",":","/","/">> \o << unc.m1 >> \o From(v2, unc.len + 1)
       ELSE v2

\* ParseFilePathOrURL, after url.Parse: an empty scheme becomes "file"; a
\* scheme other than "file" is returned as parsed; an opaque part becomes
\* the path; a Windows volume at the head of the path loses its leading
\* slash and gets a colon; OmitHost is cleared.
fileURL(u0) ==
    LET u1 == IF u0.Scheme = << >> THEN [u0 EXCEPT !.Scheme = <<"f","i","l","e">>] ELSE u0
        u2 == IF u1.Path = << >> /\ u1.Opaque # << >>
              THEN [u1 EXCEPT !.Path = u1.Opaque, !.Opaque = << >>] ELSE u1
        win == windowsVolumeRegex(u2.Path)
        u3 == IF win.matched
              THEN [u2 EXCEPT !.Path = << win.m1 >> \o <<":","/">> \o From(u2.Path, win.len + 1)]
              ELSE u2
    IN IF u1.Scheme # <<"f","i","l","e">> THEN ParseOk(u1)
       ELSE ParseOk([u3 EXCEPT !.OmitHost = FALSE])

\* ParseFilePathOrURL(val string).
ParseFilePathOrURL(val) ==
    IF val = <<"-">>
    THEN ParseOk([ZeroURL EXCEPT !.Scheme = <<"f","i","l","e">>, !.Path = <<"-">>])
    ELSE LET r == urlParse(fileURLText(val))
         IN IF r.err # "" THEN r
            ELSE fileURL(Deref(r.u))

(***************************************************************************)
(* File paths and URLs: the inputs, by components, and the specification   *)
(* of the ParseFilePathOrURL call.                                         *)
(***************************************************************************)
PrefixInputs ==
    {<< >>, <<"/">>, <<"/","/">>, FilePrefix, FilePrefix \o <<"/">>,
     FilePrefix \o <<"/","/">>, FilePrefix \o <<"/","/","/">>,
     FilePrefix \o <<"/","/","/","/">>, FilePrefix \o <<"/","/","/","/","/">>,
     <<"h","t","t","p",":","/","/">>}

\* A drive as written: its letter and the separator after it; none has no letter.
DriveInputs ==
    {[letter |-> "", sep |-> ""], [letter |-> "C", sep |-> ":"],
     [letter |-> "c", sep |-> ":"], [letter |-> "z", sep |-> ":"],
     [letter |-> "C", sep |-> "|"]}

SegmentInputs ==
    {<< <<"f","o","o">>, <<"b","a","r">> >>, << <<"f","o","o">> >>,
     << <<"s","r","v">>, <<"s","h","a","r","e">>, <<"f">> >>}

SeparatorInputs == {"\\", "/"}

FileInputs ==
    [stdin : {FALSE}, prefix : PrefixInputs, drive : DriveInputs,
     separator : SeparatorInputs, segments : SegmentInputs]

StdinInput ==
    [stdin |-> TRUE, prefix |-> << >>, drive |-> [letter |-> "", sep |-> ""],
     separator |-> "/", segments |-> << <<"f","o","o">> >>]

\* The segments joined by (and, after a drive, led by) the separator.
RECURSIVE JoinSegments(_, _)
JoinSegments(segs, sep) ==
    IF Len(segs) = 0 THEN << >>
    ELSE IF Len(segs) = 1 THEN segs[1]
    ELSE segs[1] \o << sep >> \o JoinSegments(Tail(segs), sep)

DriveText(d, sep) == IF d.letter = "" THEN << >> ELSE << d.letter, d.sep, sep >>

RenderFile(c) ==
    IF c.stdin THEN <<"-">>
    ELSE c.prefix \o DriveText(c.drive, c.separator) \o JoinSegments(c.segments, c.separator)

InitFile ==
    /\ arg \in FileInputs \cup {StdinInput}
    /\ pc = "start"
    /\ ret = NoResult
    /\ IdleClone /\ IdleCompose

CallParseFilePathOrURL ==
    /\ pc = "start"
    /\ ret' = ParseFilePathOrURL(RenderFile(arg))
    /\ pc' = "fileparsed"
    /\ UNCHANGED << arg, cloneVars, composeVars >>

NextFile == CallParseFilePathOrURL

SpecFile == InitFile /\ [][NextFile]_vars

(***************************************************************************)
(* Claims about file paths.                                                *)
(***************************************************************************)
\* A bare Windows drive path: a letter, a colon, backslash-separated segments.
BareDrivePath(c) ==
    /\ ~c.stdin /\ c.prefix = << >>
    /\ c.drive.letter # "" /\ c.drive.sep = ":"
    /\ c.separator = "\\"

\* C5: for a bare Windows drive path (C:\foo\bar) ParseFilePathOrURL succeeds
\* and returns scheme "file" and the input with every backslash replaced by a
\* forward slash as the path (C:/foo/bar), the drive letter kept as written.
C5_WindowsDrivePath ==
    (pc = "fileparsed" /\ BareDrivePath(arg)) =>
        /\ ret.err = ""
        /\ Deref(ret.u).Scheme = <<"f","i","l","e">>
        /\ Deref(ret.u).Path = << arg.drive.letter, ":", "/" >> \o JoinSegments(arg.segments, "/")

(***************************************************************************)
(* ProxyConfig.Validate.  An error message is the sequence of its pieces   *)
(* (field name, index, cause); << >> is the nil error.  A nil-pointer      *)
(* dereference does not return: the result is marked panicked.             *)
(***************************************************************************)
\* strconv.Itoa as fmt's %d prints a list index (one digit below ten).
Itoa(i) ==
    IF i < 10 THEN << DigitSeq[i + 1] >>
    ELSE << DigitSeq[(i \div 10) + 1], DigitSeq[(i % 10) + 1] >>

Returned(err) == [panicked |-> FALSE, err |-> err]
Panicked == [panicked |-> TRUE, err |-> << >>]

\* The loop over c.DNSURIs reporting the position counted from one.
RECURSIVE validateDNSURIs_IndexFromOne(_, _)
validateDNSURIs_IndexFromOne(uris, i) ==
    IF i > Len(uris) THEN Returned(<< >>)
    ELSE LET e == validateDNSURI(uris[i])
         IN IF e = "panic" THEN Panicked
            ELSE IF e # "" THEN Returned(<<"dns_uris[", Itoa(i), "]: ", e>>)
            ELSE validateDNSURIs_IndexFromOne(uris, i + 1)

\* The loop over c.DNSURIs of Validate, from the i-th entry (1-based) on.
RECURSIVE validateDNSURIs(_, _)
validateDNSURIs(uris, i) ==
    IF i > Len(uris) THEN Returned(<< >>)
    ELSE LET e == validateDNSURI(uris[i])
         IN IF e = "panic" THEN Panicked
            ELSE IF e # "" THEN Returned(<<"dns_uris[", Itoa(i - 1), "]: ", e>>)
            ELSE validateDNSURIs(uris, i + 1)

\* Validate without the check that upstream proxy and PAC exclude each other.
Validate_NoExclusive(c) ==
    IF IsNil(c.LocalProxyURI)
    THEN Returned(<<"local_proxy_uri", " is required">>)
    ELSE IF validateProxyURI(c.LocalProxyURI) # ""
    THEN Returned(<<"local_proxy_uri", ": ", validateProxyURI(c.LocalProxyURI)>>)
    ELSE IF validateProxyURI(c.UpstreamProxyURI) # ""
    THEN Returned(<<"upstream_proxy_uri", ": ", validateProxyURI(c.UpstreamProxyURI)>>)
    ELSE IF validateProxyURI(c.PACURI) # ""
    THEN Returned(<<"pac_uri", ": ", validateProxyURI(c.PACURI)>>)
    ELSE validateDNSURIs(c.DNSURIs, 1)

\* (c *ProxyConfig) Validate().
Validate(c) ==
    IF IsNil(c.LocalProxyURI)
    THEN Returned(<<"local_proxy_uri", " is required">>)
    ELSE IF validateProxyURI(c.LocalProxyURI) # ""
    THEN Returned(<<"local_proxy_uri", ": ", validateProxyURI(c.LocalProxyURI)>>)
    ELSE IF validateProxyURI(c.UpstreamProxyURI) # ""
    THEN Returned(<<"upstream_proxy_uri", ": ", validateProxyURI(c.UpstreamProxyURI)>>)
    ELSE IF validateProxyURI(c.PACURI) # ""
    THEN Returned(<<"pac_uri", ": ", validateProxyURI(c.PACURI)>>)
    ELSE IF ~IsNil(c.UpstreamProxyURI) /\ ~IsNil(c.PACURI)
    THEN Returned(<<"only one of upstream_proxy_uri or pac_uri can be set">>)
    ELSE validateDNSURIs(c.DNSURIs, 1)

(***************************************************************************)
(* Configurations, and the specification of the Validate call.             *)
(***************************************************************************)
URLOf(scheme, host) == [ZeroURL EXCEPT !.Scheme = scheme, !.Host = host]

GoodProxyURL == URLOf(<<"h","t","t","p">>, <<"h","o","s","t",":","8","0">>)

ProxyURLInputs ==
    {Nil,
     Some(GoodProxyURL),
     Some(URLOf(<<"f","t","p">>, <<"h","o","s","t",":","8","0">>)),
     Some(URLOf(<<"h","t","t","p","s">>, <<"h","o","s","t">>))}

GoodDNSURL == URLOf(<<"u","d","p">>, <<"1",".","1",".","1",".","1",":","5","3">>)

DNSURLInputs ==
    {Nil,
     Some(GoodDNSURL),
     Some(URLOf(<<"u","d","p">>, <<"d","n","s",".","i","o",":","5","3">>)),
     Some(URLOf(<<"h","t","t","p">>, <<"1",".","1",".","1",".","1",":","5","3">>))}

\* The lists of at most n DNS URLs.
RECURSIVE DNSLists(_)
DNSLists(n) ==
    IF n = 0 THEN {<< >>}
    ELSE DNSLists(n - 1)
         \cup {Append(l, u) : l \in {x \in DNSLists(n - 1) : Len(x) = n - 1},
                              u \in DNSURLInputs}

ConfigInputs ==
    [LocalProxyURI : ProxyURLInputs, UpstreamProxyURI : ProxyURLInputs,
     PACURI : ProxyURLInputs, PACProxiesCredentials : {<< >>},
     DNSURIs : DNSLists(MaxDNS), ProxyLocalhost : {FALSE}, SiteCredentials : {<< >>}]

InitConfig ==
    /\ arg \in ConfigInputs
    /\ pc = "start"
    /\ ret = Returned(<< >>)
    /\ IdleClone /\ IdleCompose

CallValidate ==
    /\ pc = "start"
    /\ ret' = Validate(arg)
    /\ pc' = "checked"
    /\ UNCHANGED << arg, cloneVars, composeVars >>

NextConfig == CallValidate

SpecConfig == InitConfig /\ [][NextConfig]_vars

(***************************************************************************)
(* Claims about ProxyConfig.Validate.                                      *)
(***************************************************************************)
BothSet(c) == ~IsNil(c.UpstreamProxyURI) /\ ~IsNil(c.PACURI)

\* C1: Validate returns an error for every configuration in which both
\* UpstreamProxyURI and PACURI are set; a configuration it accepts has at
\* most one of them set.
C1_ExclusiveUpstreamPAC ==
    pc = "checked" =>
        /\ BothSet(arg) => (~ret.panicked /\ ret.err # << >>)
        /\ (~ret.panicked /\ ret.err = << >>) => ~BothSet(arg)

\* C1's case is reached: both are set, each is valid by itself, every DNS URI
\* is valid, and Validate reported the conflict.
C1_Witness ==
    /\ pc = "checked"
    /\ BothSet(arg)
    /\ arg.LocalProxyURI = Some(GoodProxyURL)
    /\ arg.UpstreamProxyURI = Some(GoodProxyURL) /\ arg.PACURI = Some(GoodProxyURL)
    /\ Len(arg.DNSURIs) > 0
    /\ ret = Returned(<<"only one of upstream_proxy_uri or pac_uri can be set">>)

\* The checks of a configuration in their fixed order: 1 local_proxy_uri,
\* 2 upstream_proxy_uri, 3 pac_uri, 4 the mutual exclusion, 4 + i dns_uris[i-1].
CheckFails(c, k) ==
    IF k = 1 THEN IsNil(c.LocalProxyURI) \/ validateProxyURI(c.LocalProxyURI) # ""
    ELSE IF k = 2 THEN validateProxyURI(c.UpstreamProxyURI) # ""
    ELSE IF k = 3 THEN validateProxyURI(c.PACURI) # ""
    ELSE IF k = 4 THEN BothSet(c)
    ELSE validateDNSURI(c.DNSURIs[k - 4]) # ""

FailingChecks(c) == {k \in 1..(4 + Len(c.DNSURIs)) : CheckFails(c, k)}

FirstFailing(c) == CHOOSE k \in FailingChecks(c) : \A j \in FailingChecks(c) : k <= j

\* The item an error message names: its leading piece, and for a list entry
\* the index that follows.
NamedItem(k) ==
    IF k = 1 THEN <<"local_proxy_uri">>
    ELSE IF k = 2 THEN <<"upstream_proxy_uri">>
    ELSE IF k = 3 THEN <<"pac_uri">>
    ELSE IF k = 4 THEN <<"only one of upstream_proxy_uri or pac_uri can be set">>
    ELSE <<"dns_uris[", Itoa(k - 5), "]: ">>

\* C9: when Validate fails, its error names the first failing check in the
\* order local_proxy_uri, upstream_proxy_uri, pac_uri, mutual exclusion,
\* dns_uris[i] for increasing i; for a DNS URI the message carries the
\* smallest failing index.
C9_FirstFailingCheckNamed ==
    (pc = "checked" /\ ~ret.panicked /\ ret.err # << >>) =>
        /\ FailingChecks(arg) # {}
        /\ LET name == NamedItem(FirstFailing(arg))
           IN Len(ret.err) >= Len(name) /\ SubSeq(ret.err, 1, Len(name)) = name

\* C9's case is reached: the proxy fields are valid and not in conflict, the
\* first DNS URI is valid, a later one is not, and its index is reported.
C9_Witness ==
    /\ pc = "checked"
    /\ FailingChecks(arg) # {}
    /\ FirstFailing(arg) > 5
    /\ ~ret.panicked
    /\ ret.err # << >>
    /\ ret.err[2] = Itoa(FirstFailing(arg) - 5)

\* C10: Validate returns nil or an error for every configuration, also one
\* whose DNSURIs holds a nil entry; it never ends in a nil dereference.
C10_ValidateNeverPanics == pc = "checked" => ~ret.panicked

(***************************************************************************)
(* ProxyConfig.Clone, over a heap.  An address is a positive number and 0  *)
(* is the nil pointer.  A slice is the address of its backing array.       *)
(***************************************************************************)
Free == [kind |-> "free"]

\* The source configuration's objects: the configuration, the local proxy URI
\* and its credential, the upstream proxy URI, the PAC URI, the three backing
\* arrays, and one URL per DNS entry.
SrcAddr == 1
RegionSize == 8 + MaxDNS
Addr == 1..(2 * RegionSize)

\* The pointers an object holds.
Pointers(o) ==
    IF o.kind = "config"
    THEN {o.LocalProxyURI, o.UpstreamProxyURI, o.PACURI, o.PACProxiesCredentials,
          o.DNSURIs, o.SiteCredentials} \ {0}
    ELSE IF o.kind = "url" THEN {o.User} \ {0}
    ELSE IF o.kind = "urls" THEN {o.elems[i] : i \in 1..Len(o.elems)} \ {0}
    ELSE {}

\* The addresses reachable from pointer p.
RECURSIVE Reach(_, _)
Reach(h, p) ==
    IF p = 0 THEN {}
    ELSE {p} \cup UNION {Reach(h, q) : q \in Pointers(h[p])}

\* The deep value behind pointer p: the object with every pointer replaced
\* by the value it points to.
RECURSIVE Value(_, _)
Value(h, p) ==
    IF p = 0 THEN Nil
    ELSE LET o == h[p]
         IN IF o.kind = "config"
            THEN Some([LocalProxyURI |-> Value(h, o.LocalProxyURI),
                       UpstreamProxyURI |-> Value(h, o.UpstreamProxyURI),
                       PACURI |-> Value(h, o.PACURI),
                       PACProxiesCredentials |-> Value(h, o.PACProxiesCredentials),
                       DNSURIs |-> Value(h, o.DNSURIs),
                       ProxyLocalhost |-> o.ProxyLocalhost,
                       SiteCredentials |-> Value(h, o.SiteCredentials)])
            ELSE IF o.kind = "url"
            THEN Some([Scheme |-> o.Scheme, Host |-> o.Host, User |-> Value(h, o.User)])
            ELSE IF o.kind = "urls"
            THEN Some([i \in 1..Len(o.elems) |-> Value(h, o.elems[i])])
            ELSE IF o.kind = "strings" THEN Some(o.elems)
            ELSE Some(o)

\* An object with every pointer moved by off.
Shift(o, off) ==
    LET mv(q) == IF q = 0 THEN 0 ELSE q + off
    IN IF o.kind = "config"
       THEN [o EXCEPT !.LocalProxyURI = mv(@), !.UpstreamProxyURI = mv(@),
                      !.PACURI = mv(@), !.PACProxiesCredentials = mv(@),
                      !.DNSURIs = mv(@), !.SiteCredentials = mv(@)]
       ELSE IF o.kind = "url" THEN [o EXCEPT !.User = mv(@)]
       ELSE IF o.kind = "urls"
       THEN [o EXCEPT !.elems = [i \in 1..Len(o.elems) |-> mv(o.elems[i])]]
       ELSE o

\* new(ProxyConfig): the address after the last object in use.
new(h) == CHOOSE a \in Addr : h[a] = Free /\ \A b \in Addr : b > a => h[b] = Free
                              /\ (a = 1 \/ h[a - 1] # Free)

\* deepCopy(dst, src): every object reachable from src is copied, field by
\* field and element by element, to a fresh address, and the copies point to
\* copies.
deepCopy(h, dst, src) ==
    LET off == dst - src
    IN [a \in Addr |-> IF (a - off) \in Reach(h, src) THEN Shift(h[a - off], off)
                       ELSE h[a]]

\* Clone as a copy of the structure alone: *v = *c.
Clone_Shallow(h, c) ==
    LET v == new(h)
    IN [heap |-> [h EXCEPT ![v] = h[c]], v |-> v]

\* (c *ProxyConfig) Clone(): the heap after the call, and the pointer returned.
Clone(h, c) ==
    LET v == new(h)
    IN [heap |-> deepCopy(h, v, c), v |-> v]

(***************************************************************************)
(* Source configurations, and the specification of Clone followed by       *)
(* writes through the source and through the clone.                        *)
(***************************************************************************)
CloneInputs ==
    [hasUser : BOOLEAN, hasUpstream : BOOLEAN, hasPAC : BOOLEAN,
     nPACCredentials : 0..1, nSiteCredentials : 0..1, nDNS : 0..MaxDNS]

UrlObject(scheme, host, user) ==
    [kind |-> "url", Scheme |-> scheme, Host |-> host, User |-> user]

\* The heap holding the configuration of shape c at SrcAddr.
HeapOf(c) ==
    [a \in Addr |->
        IF a = SrcAddr
        THEN [kind |-> "config", LocalProxyURI |-> 2,
              UpstreamProxyURI |-> IF c.hasUpstream THEN 4 ELSE 0,
              PACURI |-> IF c.hasPAC THEN 5 ELSE 0,
              PACProxiesCredentials |-> IF c.nPACCredentials > 0 THEN 6 ELSE 0,
              DNSURIs |-> IF c.nDNS > 0 THEN 8 ELSE 0,
              ProxyLocalhost |-> FALSE,
              SiteCredentials |-> IF c.nSiteCredentials > 0 THEN 7 ELSE 0]
        ELSE IF a = 2
        THEN UrlObject(<<"h","t","t","p">>, <<"h","o","s","t",":","8","0">>,
                       IF c.hasUser THEN 3 ELSE 0)
        ELSE IF a = 3 /\ c.hasUser
        THEN [kind |-> "userinfo", username |-> <<"u","s","r">>, password |-> <<"p","w">>,
              passwordSet |-> TRUE]
        ELSE IF a = 4 /\ c.hasUpstream
        THEN UrlObject(<<"h","t","t","p","s">>, <<"h","o","s","t",":","8","1">>, 0)
        ELSE IF a = 5 /\ c.hasPAC
        THEN UrlObject(<<"h","t","t","p">>, <<"h","o","s","t",":","8","2">>, 0)
        ELSE IF a = 6 /\ c.nPACCredentials > 0
        THEN [kind |-> "strings", elems |-> << <<"u",":","p">> >>]
        ELSE IF a = 7 /\ c.nSiteCredentials > 0
        THEN [kind |-> "strings", elems |-> << <<"u",":","p","@","h">> >>]
        ELSE IF a = 8 /\ c.nDNS > 0
        THEN [kind |-> "urls", elems |-> [i \in 1..c.nDNS |-> 8 + i]]
        ELSE IF a > 8 /\ a <= 8 + c.nDNS
        THEN UrlObject(<<"u","d","p">>, <<"1",".","1",".","1",".","1",":","5","3">>, 0)
        ELSE Free]

InitClone ==
    /\ arg \in CloneInputs
    /\ pc = "start"
    /\ ret = 0
    /\ heap = HeapOf(arg)
    /\ snap = Nil
    /\ touched = << >>
    /\ IdleCompose

CallClone ==
    /\ pc = "start"
    /\ heap' = Clone(heap, SrcAddr).heap
    /\ ret' = Clone(heap, SrcAddr).v
    /\ snap' = Value(heap, SrcAddr)
    /\ pc' = "cloned"
    /\ UNCHANGED << arg, touched, composeVars >>

\* The configurations a caller holds after Clone: the source and the clone.
Holder(side) == IF side = "source" THEN SrcAddr ELSE ret

\* c.ProxyLocalhost = true; c.UpstreamProxyURI = nil
WriteField(side) ==
    /\ pc = "cloned" /\ Len(touched) < MaxMutations
    /\ \/ heap' = [heap EXCEPT ![Holder(side)].ProxyLocalhost = TRUE]
       \/ heap' = [heap EXCEPT ![Holder(side)].UpstreamProxyURI = 0]
    /\ touched' = Append(touched, side)
    /\ UNCHANGED << arg, pc, ret, snap, composeVars >>

\* c.LocalProxyURI.Host = "evil:1"; c.PACURI.Scheme = "ftp"
WriteURL(side) ==
    /\ pc = "cloned" /\ Len(touched) < MaxMutations
    /\ \/ heap' = [heap EXCEPT ![heap[Holder(side)].LocalProxyURI].Host =
                                   <<"e","v","i","l",":","1">>]
       \/ /\ heap[Holder(side)].PACURI # 0
          /\ heap' = [heap EXCEPT ![heap[Holder(side)].PACURI].Scheme = <<"f","t","p">>]
    /\ touched' = Append(touched, side)
    /\ UNCHANGED << arg, pc, ret, snap, composeVars >>

\* *c.LocalProxyURI.User = *url.UserPassword("usr", "other")
WriteCredential(side) ==
    /\ pc = "cloned" /\ Len(touched) < MaxMutations
    /\ heap[Holder(side)].LocalProxyURI # 0
    /\ heap[heap[Holder(side)].LocalProxyURI].User # 0
    /\ heap' = [heap EXCEPT ![heap[heap[Holder(side)].LocalProxyURI].User].password =
                                <<"o","t","h","e","r">>]
    /\ touched' = Append(touched, side)
    /\ UNCHANGED << arg, pc, ret, snap, composeVars >>

\* c.PACProxiesCredentials[0] = "x:y"; c.SiteCredentials[0] = "x:y@h"
WriteString(side) ==
    /\ pc = "cloned" /\ Len(touched) < MaxMutations
    /\ \/ /\ heap[Holder(side)].PACProxiesCredentials # 0
          /\ heap' = [heap EXCEPT ![heap[Holder(side)].PACProxiesCredentials].elems[1] =
                                      <<"x",":","y">>]
       \/ /\ heap[Holder(side)].SiteCredentials # 0
          /\ heap' = [heap EXCEPT ![heap[Holder(side)].SiteCredentials].elems[1] =
                                      <<"x",":","y","@","h">>]
    /\ touched' = Append(touched, side)
    /\ UNCHANGED << arg, pc, ret, snap, composeVars >>

\* c.DNSURIs[i] = nil; c.DNSURIs[i].Scheme = "tcp"
WriteDNS(side) ==
    /\ pc = "cloned" /\ Len(touched) < MaxMutations
    /\ heap[Holder(side)].DNSURIs # 0
    /\ \E i \in 1..Len(heap[heap[Holder(side)].DNSURIs].elems) :
          \/ heap' = [heap EXCEPT ![heap[Holder(side)].DNSURIs].elems[i] = 0]
          \/ /\ heap[heap[Holder(side)].DNSURIs].elems[i] # 0
             /\ heap' = [heap EXCEPT ![heap[heap[Holder(side)].DNSURIs].elems[i]].Scheme =
                                         <<"t","c","p">>]
    /\ touched' = Append(touched, side)
    /\ UNCHANGED << arg, pc, ret, snap, composeVars >>

NextClone ==
    \/ CallClone
    \/ \E side \in {"source", "clone"} :
          \/ WriteField(side)
          \/ WriteURL(side)
          \/ WriteCredential(side)
          \/ WriteString(side)
          \/ WriteDNS(side)

SpecClone == InitClone /\ [][NextClone]_vars

(***************************************************************************)
(* Claims about ProxyConfig.Clone.                                         *)
(***************************************************************************)
Written(side) == \E i \in 1..Len(touched) : touched[i] = side

\* C6: Clone returns a configuration equal in value to the source and sharing
\* no mutable part with it: no object is reachable from both, writes through
\* the clone leave the value of the source as it was when cloned, and writes
\* through the source leave the value of the clone as it was.
C6_CloneIndependent ==
    pc = "cloned" =>
        /\ ret # 0 /\ ret # SrcAddr
        /\ Reach(heap, SrcAddr) \cap Reach(heap, ret) = {}
        /\ ~Written("source") => Value(heap, SrcAddr) = snap
        /\ ~Written("clone") => Value(heap, ret) = snap

\* C6's case is reached: a configuration with a credential, a PAC URI and
\* DNS URIs was cloned, and the clone's nested parts were then written to
\* MaxMutations times while the source kept its value.
C6_Witness ==
    /\ pc = "cloned"
    /\ arg.hasUser /\ arg.hasPAC /\ arg.nDNS > 0
    /\ Len(touched) = MaxMutations
    /\ ~Written("source")
    /\ Value(heap, ret) # snap
    /\ Value(heap, SrcAddr) = snap

(***************************************************************************)
(* Package compose: Service.Wait, Compose.wait over an errgroup, and       *)
(* Compose.Run.  An error is the sequence of its pieces; << >> is nil.     *)
(***************************************************************************)
Services == 1..NumServices

\* Service.Name of the i-th declared service.
ServiceName(i) == <<"s", "v", "c">> \o Itoa(i)

\* Service.Wait that drops the error of its WaitFunc.
ServiceWait_SwallowsError(i, hasWaitFunc, werr) == << >>

\* (s *Service) Wait(), given what s.WaitFunc returns when it is called.
ServiceWait(i, hasWaitFunc, werr) ==
    IF ~hasWaitFunc THEN << >>
    ELSE IF werr # << >> THEN <<"service ", ServiceName(i), ": ">> \o werr
    ELSE << >>

\* Run without regard for preserve: the services are always torn down.
RunStep_IgnoresPreserve(stage, err, preserve) ==
    IF stage = "save"
    THEN IF err # << >> THEN [pc |-> "done", ret |-> <<"compose save", ": ">> \o err]
         ELSE [pc |-> "up", ret |-> << >>]
    ELSE IF stage = "up"
    THEN IF err # << >> THEN [pc |-> "done", ret |-> <<"compose up", ": ">> \o err]
         ELSE [pc |-> "wait", ret |-> << >>]
    ELSE IF stage = "wait"
    THEN IF err # << >> THEN [pc |-> "done", ret |-> <<"compose wait", ": ">> \o err]
         ELSE [pc |-> "callback", ret |-> << >>]
    ELSE IF stage = "callback"
    THEN IF err # << >> THEN [pc |-> "done", ret |-> err]
         ELSE [pc |-> "down", ret |-> << >>]
    ELSE IF err # << >> THEN [pc |-> "done", ret |-> <<"compose down", ": ">> \o err]
         ELSE [pc |-> "done", ret |-> << >>]

\* (c *Compose) Run(callback, preserve): where Run goes, and what it returns
\* if it returns, once stage has ended with err.
RunStep(stage, err, preserve) ==
    IF stage = "save"
    THEN IF err # << >> THEN [pc |-> "done", ret |-> <<"compose save", ": ">> \o err]
         ELSE [pc |-> "up", ret |-> << >>]
    ELSE IF stage = "up"
    THEN IF err # << >> THEN [pc |-> "done", ret |-> <<"compose up", ": ">> \o err]
         ELSE [pc |-> "wait", ret |-> << >>]
    ELSE IF stage = "wait"
    THEN IF err # << >> THEN [pc |-> "done", ret |-> <<"compose wait", ": ">> \o err]
         ELSE [pc |-> "callback", ret |-> << >>]
    ELSE IF stage = "callback"
    THEN IF err # << >> THEN [pc |-> "done", ret |-> err]
         ELSE IF ~preserve THEN [pc |-> "down", ret |-> << >>]
         ELSE [pc |-> "done", ret |-> << >>]
    ELSE IF err # << >> THEN [pc |-> "done", ret |-> <<"compose down", ": ">> \o err]
         ELSE [pc |-> "done", ret |-> << >>]

\* What a stage that fails returns, by stage.
StageError(stage) ==
    IF stage = "callback" THEN <<"callback failed">> ELSE <<"exit status 1">>

\* What a WaitFunc that fails returns.
Unhealthy == <<"unhealthy">>

ResultOf(err) == IF err = << >> THEN "ok" ELSE "failed"

InitCompose ==
    /\ arg \in [preserve : BOOLEAN, hasWaitFunc : [Services -> BOOLEAN]]
    /\ pc = "save"
    /\ ret = << >>
    /\ executed = << >>
    /\ gpc = [i \in Services |-> "idle"]
    /\ gres = [i \in Services |-> << >>]
    /\ group = [set |-> FALSE, err |-> << >>]
    /\ failed = << >>
    /\ recorded = << >>
    /\ IdleClone

\* c.save, c.up, callback and c.down: a stage that runs as one call.
RunStage(stage) ==
    /\ pc = stage
    /\ \E err \in {<< >>, StageError(stage)} :
          /\ executed' = Append(executed, [stage |-> stage, result |-> ResultOf(err)])
          /\ pc' = RunStep(stage, err, arg.preserve).pc
          /\ ret' = RunStep(stage, err, arg.preserve).ret
    /\ UNCHANGED << arg, cloneVars, gpc, gres, group, failed, recorded >>

\* Run calls c.wait().
WaitCall ==
    /\ pc = "wait"
    /\ executed' = Append(executed, [stage |-> "wait", result |-> "running"])
    /\ pc' = "waiting"
    /\ UNCHANGED << arg, ret, cloneVars, gpc, gres, group, failed, recorded >>

\* wg.Go(c.Services[i].Wait): the loop of wait starts the goroutine of one
\* more service, in the order the map yields them.
WaitGo(i) ==
    /\ pc = "waiting"
    /\ gpc[i] = "idle"
    /\ gpc' = [gpc EXCEPT ![i] = "running"]
    /\ UNCHANGED << arg, pc, ret, cloneVars, executed, gres, group, failed, recorded >>

\* The goroutine of service i runs Service.Wait: the readiness check ends.
GoWait(i) ==
    /\ gpc[i] = "running"
    /\ \E werr \in (IF arg.hasWaitFunc[i] THEN {<< >>, Unhealthy} ELSE {<< >>}) :
          /\ gres' = [gres EXCEPT ![i] = ServiceWait(i, arg.hasWaitFunc[i], werr)]
          /\ failed' = IF werr # << >> THEN Append(failed, i) ELSE failed
    /\ gpc' = [gpc EXCEPT ![i] = "returned"]
    /\ UNCHANGED << arg, pc, ret, cloneVars, executed, group, recorded >>

\* The goroutine hands its error to the group (errOnce keeps the first one
\* handed over) and ends.
GoDone(i) ==
    /\ gpc[i] = "returned"
    /\ group' = IF gres[i] # << >> /\ ~group.set THEN [set |-> TRUE, err |-> gres[i]]
                ELSE group
    /\ recorded' = IF gres[i] # << >> THEN Append(recorded, i) ELSE recorded
    /\ gpc' = [gpc EXCEPT ![i] = "done"]
    /\ UNCHANGED << arg, pc, ret, cloneVars, executed, gres, failed >>

\* wg.Wait() returns once every goroutine has ended; wait returns its error.
WaitReturn ==
    /\ pc = "waiting"
    /\ \A i \in Services : gpc[i] = "done"
    /\ executed' = [executed EXCEPT ![Len(executed)].result = ResultOf(group.err)]
    /\ pc' = RunStep("wait", group.err, arg.preserve).pc
    /\ ret' = RunStep("wait", group.err, arg.preserve).ret
    /\ UNCHANGED << arg, cloneVars, gpc, gres, group, failed, recorded >>

NextCompose ==
    \/ RunStage("save")
    \/ RunStage("up")
    \/ WaitCall
    \/ \E i \in Services : WaitGo(i)
    \/ \E i \in Services : GoWait(i)
    \/ \E i \in Services : GoDone(i)
    \/ WaitReturn
    \/ RunStage("callback")
    \/ RunStage("down")

SpecCompose == InitCompose /\ [][NextCompose]_vars

(***************************************************************************)
(* Claims about Compose.                                                   *)
(***************************************************************************)
StageOrder == <<"save", "up", "wait", "callback", "down">>

StagePrefix(stage) ==
    IF stage = "save" THEN <<"compose save", ": ">>
    ELSE IF stage = "up" THEN <<"compose up", ": ">>
    ELSE IF stage = "wait" THEN <<"compose wait", ": ">>
    ELSE IF stage = "down" THEN <<"compose down", ": ">>
    ELSE << >>

\* C7: Run executes save, up, wait, callback, down strictly in this order; a
\* stage starts only after every earlier stage succeeded, the first failing
\* stage ends the run, and the error returned names it (the callback's error
\* is returned as it is); down runs only when preserve is false, and Run
\* returns nil only when every stage it executed succeeded.
C7_RunStagesInOrder ==
    /\ Len(executed) <= Len(StageOrder)
    /\ \A i \in 1..Len(executed) : executed[i].stage = StageOrder[i]
    /\ \A i \in 1..(Len(executed) - 1) : executed[i].result = "ok"
    /\ (Len(executed) = 5) => ~arg.preserve
    /\ pc = "done" =>
          LET last == executed[Len(executed)]
          IN /\ Len(executed) > 0
             /\ last.result \in {"ok", "failed"}
             /\ last.result = "failed" =>
                   /\ ret # << >>
                   /\ IF last.stage = "callback" THEN ret = StageError("callback")
                      ELSE SubSeq(ret, 1, 2) = StagePrefix(last.stage)
             /\ last.result = "ok" =>
                   /\ ret = << >>
                   /\ Len(executed) = (IF arg.preserve THEN 4 ELSE 5)

\* C7's case is reached: every stage up to the callback succeeded, preserve
\* is false, and down ran and failed.
C7_Witness ==
    /\ pc = "done"
    /\ Len(executed) = 5
    /\ executed[5].result = "failed"
    /\ ret = <<"compose down", ": ">> \o StageError("down")

\* The error Service.Wait returns for a failed check of service i.
WrappedFailure(i) == <<"service ", ServiceName(i), ": ">> \o Unhealthy

\* wait has returned.
WaitReturned == Len(executed) >= 3 /\ executed[3].result # "running"

\* Every check was started and has finished; nil exactly when none failed.
C8_AllFinishedNilIffAllReady ==
    /\ \A i \in Services : gpc[i] = "done"
    /\ (group.err = << >>) <=> (failed = << >>)
    /\ executed[3].result = ResultOf(group.err)

\* C8 as stated: wait starts every service's check concurrently, returns only
\* after all have finished, returns nil exactly when every check succeeded,
\* and otherwise returns the error of the check that failed first in time,
\* wrapped with that service's name, whatever the interleaving.
C8_Original ==
    WaitReturned =>
        /\ C8_AllFinishedNilIffAllReady
        /\ failed # << >> => group.err = WrappedFailure(failed[1])

\* C8 as amended: the same, but the error returned is that of the failed
\* check whose goroutine was the first to hand its error to the group, which
\* need not be the check that failed first.
C8_FirstRecordedFailure ==
    WaitReturned =>
        /\ C8_AllFinishedNilIffAllReady
        /\ failed # << >> =>
              /\ recorded # << >>
              /\ \E k \in 1..Len(failed) : failed[k] = recorded[1]
              /\ group.err = WrappedFailure(recorded[1])
        /\ {failed[k] : k \in 1..Len(failed)} = {recorded[k] : k \in 1..Len(recorded)}

\* C8's case is reached: two checks ran at the same time, both failed, and
\* wait returned the error of the one that reported first.
C8_Witness ==
    /\ WaitReturned
    /\ Len(failed) >= 2
    /\ failed[1] # recorded[1]
    /\ group.err = WrappedFailure(recorded[1])

====
